---- MODULE Spec2Model ----
(***************************************************************************)
(* Model of the logistics-vrp routing engine (src/routing.py) and of the   *)
(* handler of the "calculate" button that drives it (src/app.py).          *)
(*                                                                         *)
(* Python lists are functions over 0..len-1, so that node indices, matrix  *)
(* rows and vehicle ids keep the values they have in the source.           *)
(* Times are minutes, distances are meters, latitudes are millidegrees.    *)
(***************************************************************************)
EXTENDS Integers, Sequences, FiniteSets, TLC

(* ------------------------------ bounds --------------------------------- *)

\* largest number of non-depot stops in the location list
MaxStops == 2

(* ------------------------- program constants --------------------------- *)

depot_idx == 0

\* horizon (capacity) and slack of the "Time" dimension
Horizon == 1440

MaxSlack == 1440

\* JSON null in a table response (OSRM reports an unroutable pair as null);
\* every number of a response is >= 0
JsonNull == -1

(* --------------------------- list helpers ------------------------------ *)

len(list) == Cardinality(DOMAIN list)

range(n) == 0 .. (n - 1)

Max(a, b) == IF a >= b THEN a ELSE b

Min(a, b) == IF a <= b THEN a ELSE b

\* a Python list built from a TLA+ sequence
ListOf(s) == [i \in range(Len(s)) |-> s[i + 1]]

EmptyList == ListOf(<<>>)

(* ------------------------------ inputs --------------------------------- *)

\* A location as the static data set gives it.  All locations lie on one
\* meridian; north is the offset from the depot in millidegrees of latitude,
\* the window is given relative to the start of the depot's shift.
Location(shift, north, demand, service_time, from, to) ==
    [lat |-> 55431 + north, lon |-> 37545, demand |-> demand,
     service_time |-> service_time, time_window |-> <<shift + from, shift + to>>]

\* the depot: demand and service time 0, its window is the shift
Depot(shift) == Location(shift, 0, 0, 0, 0, 5)

\* the stops the location list is drawn from
StopKinds ==
    { Location(0, 3, 1, 0, 1, 3),
      Location(0, 7, 3, 1, 2, 3),
      Location(0, 4, 2, 1, 0, 2) }

\* the location lists of n stops after the depot at index 0
LocationListsOf(n) ==
    { [i \in range(n + 1) |-> IF i = 0 THEN Depot(0) ELSE s[i]] :
        s \in [1 .. n -> StopKinds] }

\* location lists: empty, or the depot followed by up to MaxStops stops
LocationLists == {EmptyList} \cup UNION { LocationListsOf(n) : n \in 0 .. MaxStops }

\* the capacities of the fleet; 0 is a capacity the spec's data model forbids
Capacities == {0, 2, 3}

\* the numbers of vehicles the caller selects
FleetSizes == {0, 1, 2}

\* the vehicles the caller selected: possibly none, each with a name and a capacity
VehicleLists ==
    UNION { { [v \in range(n) |-> [name |-> v, capacity |-> c[v]]] :
                c \in [range(n) -> Capacities] } : n \in FleetSizes }

(* ---------------------- the external table service --------------------- *)

\* The numbers of a response are in tenths (of a second, of a meter), so that
\* the conversions to whole minutes and whole meters have something to cut.

\* an r x c table: diag on the diagonal, up above it, down below it
Table(r, c, diag, up, down) ==
    [i \in range(r) |-> [j \in range(c) |->
        IF i = j THEN diag ELSE IF i < j THEN up ELSE down]]

\* table m with the entry at (i, j) replaced by JSON null
WithNull(m, i, j) ==
    [a \in DOMAIN m |-> [b \in DOMAIN m[a] |->
        IF a = i /\ b = j THEN JsonNull ELSE m[a][b]]]

\* a field of the JSON object, and a field the object does not have
Field(value) == [present |-> TRUE, value |-> value]

Missing == [present |-> FALSE, value |-> EmptyList]

\* What the request of get_matrices can come to: the request raises (network
\* error, timeout, HTTP error status, a body that is no JSON), or it yields a
\* JSON object with or without a code (code "" stands for no code field),
\* durations and distances.
Response(kind, code, durations, distances) ==
    [kind |-> kind, code |-> code, durations |-> durations, distances |-> distances]

FailedRequests ==
    { Response(k, "", Missing, Missing) :
        k \in {"network_error", "timeout", "http_error", "bad_json"} }

Durations(n) == Table(n, n, 0, 599, 1300)

Distances(n) == Table(n, n, 0, 9007, 12004)

\* the answer of a service that works as documented, for n locations
GoodResponses(n) ==
    { Response("json", "Ok", Field(Durations(n)), Field(Distances(n))) }

\* an answer that carries the success code with tables one row and column short
ShortResponses(n) ==
    IF n = 0 THEN {}
    ELSE { Response("json", "Ok", Field(Table(n - 1, n - 1, 0, 599, 1300)),
                    Field(Table(n - 1, n - 1, 0, 9007, 12004))) }

\* every other answer: an error code, no code, missing or null fields,
\* tables of any shape near n x n and with any diagonal
OddResponses(n) ==
    { Response("json", code, Missing, Missing) : code \in {"NoRoute", ""} }
    \cup { Response("json", "Ok", d, Missing) : d \in {Missing, Field(Durations(n))} }
    \cup { Response("json", "Ok", Missing, Field(Distances(n))) }
    \cup { Response("json", "Ok", Field(Table(r1, c1, dd, 0, 1300)),
                    Field(Table(r2, c2, dm, 9007, 12004))) :
             r1 \in {n - 1, n, n + 1} \cap Nat, c1 \in {n - 1, n, n + 1} \cap Nat,
             r2 \in {n - 1, n, n + 1} \cap Nat, c2 \in {n, n + 1},
             dd \in {0, 6000}, dm \in {0, 75} }
    \cup { Response("json", "Ok", Field(WithNull(Durations(n), i, j)), Field(Distances(n))) :
             i \in range(n), j \in range(n) }
    \cup { Response("json", "Ok", Field(Durations(n)), Field(WithNull(Distances(n), i, j))) :
             i \in range(n), j \in range(n) }

(* ---------------------------- get_matrices ----------------------------- *)

\* Great-circle distance in millimeters.  For two points of one meridian
\* (dlambda = 0) a = sin(dphi/2)^2 and the distance is R * |dphi|, which is
\* 111195 mm for each millidegree of latitude (R = 6371000 m).
haversine(lat1, lon1, lat2, lon2) ==
    (IF lat2 >= lat1 THEN lat2 - lat1 ELSE lat1 - lat2) * 111195

\* int(dist * FACTOR) with FACTOR = 1.4, in meters
real_dist(dist) == (dist * 14) \div 10000

\* int((real_dist / 1000 / AVERAGE_SPEED_KMH) * 60) with 30 km/h, in minutes
travel_time(meters) == (meters * 60) \div 30000

calculate_fallback_time(locs) ==
    [i \in range(len(locs)) |-> [j \in range(len(locs)) |->
        IF i = j THEN 0
        ELSE Max(1, travel_time(real_dist(haversine(
                 locs[i].lat, locs[i].lon, locs[j].lat, locs[j].lon))))]]

calculate_fallback_dist(locs) ==
    [i \in range(len(locs)) |-> [j \in range(len(locs)) |->
        IF i = j THEN 0
        ELSE real_dist(haversine(
                 locs[i].lat, locs[i].lon, locs[j].lat, locs[j].lon))]]

\* the pair _calculate_fallback_matrices returns
calculate_fallback_matrices(locs) ==
    <<calculate_fallback_time(locs), calculate_fallback_dist(locs)>>

\* max(1, int(val / 60)) if i != j else 0, val in tenths of a second
service_time_matrix(durations) ==
    [i \in DOMAIN durations |-> [j \in DOMAIN durations[i] |->
        IF i # j THEN Max(1, durations[i][j] \div 600) ELSE 0]]

\* int(val), val in tenths of a meter
service_dist_matrix(distances) ==
    [i \in DOMAIN distances |-> [j \in DOMAIN distances[i] |-> distances[i][j] \div 10]]

\* val / 60 raises TypeError on null; the diagonal value is never read
time_matrix_raises(durations) ==
    \E i \in DOMAIN durations : \E j \in DOMAIN durations[i] :
        i # j /\ durations[i][j] = JsonNull

\* int(val) raises TypeError on null, on the diagonal too
dist_matrix_raises(distances) ==
    \E i \in DOMAIN distances : \E j \in DOMAIN distances[i] : distances[i][j] = JsonNull

\* The exception the try block of get_matrices raises before it returns,
\* "" when it raises none.  requests raises subclasses of RequestException,
\* r.json() a ValueError, a missing key a KeyError, arithmetic on null a
\* TypeError.
try_raises(response) ==
    IF response.kind \in {"network_error", "timeout", "http_error"} THEN "RequestException"
    ELSE IF response.kind = "bad_json" THEN "ValueError"
    ELSE IF response.code = "" THEN "KeyError"
    ELSE IF response.code # "Ok" THEN ""
    ELSE IF ~response.durations.present THEN "KeyError"
    ELSE IF time_matrix_raises(response.durations.value) THEN "TypeError"
    ELSE IF ~response.distances.present THEN "KeyError"
    ELSE IF dist_matrix_raises(response.distances.value) THEN "TypeError"
    ELSE ""

\* except Exception: every exception the try block raises is caught
caught(exception) ==
    exception \in {"RequestException", "ValueError", "KeyError", "TypeError"}

\* the try block reaches its return statement
service_returns(response) ==
    try_raises(response) = "" /\ response.code = "Ok"

\* the pair the try block returns
service_matrices(response) ==
    <<service_time_matrix(response.durations.value),
      service_dist_matrix(response.distances.value)>>

\* get_matrices raises: the try block raises what the except clause lets pass
get_matrices_raises(response) ==
    try_raises(response) # "" /\ ~caught(try_raises(response))

\* one try block for each matrix: the time matrix of the response is kept
\* when only the distances fail
get_matrices_apart(locs, response) ==
    IF service_returns(response) THEN service_matrices(response)
    ELSE IF /\ response.kind = "json"
            /\ response.code = "Ok"
            /\ response.durations.present
            /\ ~time_matrix_raises(response.durations.value)
         THEN <<service_time_matrix(response.durations.value), calculate_fallback_dist(locs)>>
         ELSE calculate_fallback_matrices(locs)

\* get_matrices: the service's tables, or the fallback after any exception
\* caught and after any code other than "Ok"
get_matrices(locs, response) ==
    IF service_returns(response)
    THEN service_matrices(response)
    ELSE calculate_fallback_matrices(locs)

(* ------------------ the routing library (OR-Tools) --------------------- *)

\* RoutingIndexManager(num_locations, num_vehicles, depot_idx): the nodes keep
\* their numbers as indices, index 0 doubles as the start of vehicle 0, the
\* other vehicles' starts follow the nodes and the ends follow the starts.
RoutingIndexManager(num_locations, num_vehicles, depot) ==
    [num_nodes |-> num_locations, num_vehicles |-> num_vehicles, depot |-> depot]

Start(manager, vehicle_id) ==
    IF vehicle_id = 0 THEN manager.depot
    ELSE manager.num_nodes + vehicle_id - 1

End(manager, vehicle_id) ==
    manager.num_nodes + manager.num_vehicles - 1 + vehicle_id

IsEnd(manager, index) ==
    index >= manager.num_nodes + manager.num_vehicles - 1

IndexToNode(manager, index) ==
    IF index < manager.num_nodes THEN index ELSE manager.depot

NodeToIndex(manager, node) == node

\* every index, and the indices that have a successor
Indices(manager) == range(manager.num_nodes + 2 * manager.num_vehicles - 1)

\* the service time of the destination is charged instead of the origin's
time_callback_at_arrival(locs, tm, from_node, to_node) ==
    tm[from_node][to_node] + locs[to_node].service_time

\* time_callback on nodes: travel plus the service time of the origin
time_callback(locs, tm, from_node, to_node) ==
    tm[from_node][to_node] + locs[from_node].service_time

\* demand_callback on nodes
demand_callback(locs, from_node) == locs[from_node].demand

\* time_callback raises IndexError for some pair of nodes
time_callback_raises(locs, tm) ==
    \E i \in range(len(locs)) : \E j \in range(len(locs)) :
        IF i \in DOMAIN tm THEN j \notin DOMAIN tm[i] ELSE TRUE

\* the sum of a sequence of numbers
RECURSIVE Sum(_)
Sum(s) == IF s = <<>> THEN 0 ELSE Head(s) + Sum(Tail(s))

SeqRange(s) == { s[i] : i \in DOMAIN s }

\* the least element of a non-empty set of numbers
Least(S) == CHOOSE x \in S : \A y \in S : x <= y

\* the orders in which a vehicle can visit some of the given nodes, each once
Paths(nodes) ==
    { p \in UNION { [1 .. k -> nodes] : k \in 0 .. Cardinality(nodes) } :
        \A i, j \in DOMAIN p : i # j => p[i] # p[j] }

\* the nodes of a vehicle's route, from the depot to the depot
Legs(path) == <<depot_idx>> \o path \o <<depot_idx>>

\* a fleet-wide capacity: every vehicle is given the capacity of the largest
vehicle_capacities_widest(vehs) ==
    [v \in DOMAIN vehs |->
        CHOOSE c \in { vehs[w].capacity : w \in DOMAIN vehs } :
            \A w \in DOMAIN vehs : vehs[w].capacity <= c]

\* [v['capacity'] for v in vehicles_config]
vehicle_capacities(vehs) == [v \in DOMAIN vehs |-> vehs[v].capacity]

\* The "Capacity" dimension: the cumul is 0 at the start, grows by the demand
\* of the node left (no slack) and stays within 0 .. the vehicle's capacity.
capacity_ok(locs, capacity, path) ==
    \A k \in 1 .. Len(Legs(path)) :
        Sum([i \in 1 .. (k - 1) |-> demand_callback(locs, Legs(path)[i])]) \in 0 .. capacity

\* CumulVar(index).SetRange(start, end) of a stop, within the dimension's 0 .. Horizon
stop_range(locs, node) ==
    Max(0, locs[node].time_window[1]) .. Min(Horizon, locs[node].time_window[2])

\* CumulVar(Start(i)) and CumulVar(End(i)).SetRange(depot_start, depot_end)
depot_range(locs) ==
    Max(0, locs[depot_idx].time_window[1]) .. Min(Horizon, locs[depot_idx].time_window[2])

cumul_range(locs, nodes, k) ==
    IF k = 1 \/ k = Len(nodes) THEN depot_range(locs) ELSE stop_range(locs, nodes[k])

\* The "Time" dimension along the first k nodes of a route: the cumul of a
\* node is the cumul of the node before, plus the transit, plus a slack of
\* 0 .. MaxSlack.  The set of all the cumul sequences the solver may fix.
RECURSIVE time_cumuls(_, _, _, _)
time_cumuls(locs, tm, nodes, k) ==
    IF k = 1 THEN { <<t>> : t \in cumul_range(locs, nodes, 1) }
    ELSE UNION { { Append(t, u) :
                     u \in { x \in cumul_range(locs, nodes, k) :
                               x - t[k - 1] - time_callback(locs, tm, nodes[k - 1], nodes[k])
                                   \in 0 .. MaxSlack } } :
                 t \in time_cumuls(locs, tm, nodes, k - 1) }

\* The cumuls of a vehicle's route.  Those of a vehicle that stays at the
\* depot are never read: the least ones stand for them (the start and the end
\* cumul are the variables the finalizer minimizes).
route_times(locs, tm, path) ==
    LET all == time_cumuls(locs, tm, Legs(path), Len(path) + 2)
    IN  IF path # <<>> \/ all = {} THEN all
        ELSE { CHOOSE t \in all : \A u \in all :
                   t[1] < u[1] \/ (t[1] = u[1] /\ t[2] <= u[2]) }

\* Every way to give the vehicles of vehicle_ids disjoint routes over some of
\* the stops, within the capacity and the time dimension; the stops left
\* over are dropped (each is alone in a disjunction with a penalty).
RECURSIVE assignments(_, _, _, _, _)
assignments(locs, vehs, tm, vehicle_ids, stops) ==
    IF vehicle_ids = {} THEN { <<>> }
    ELSE LET v == Least(vehicle_ids)
         IN  UNION { UNION { { (v :> [path |-> p, times |-> t]) @@ rest :
                                 rest \in assignments(locs, vehs, tm, vehicle_ids \ {v},
                                                      stops \ SeqRange(p)) } :
                             t \in route_times(locs, tm, p) } :
                     p \in { q \in Paths(stops) :
                               capacity_ok(locs, vehicle_capacities(vehs)[v], q) } }

\* the solutions SolveWithParameters can return for the model solve_vrp builds:
\* none when a cumul variable has an empty range or no vehicle can leave and
\* enter the depot within the shift
solutions(locs, vehs, tm) ==
    IF \E node \in range(len(locs)) \ {depot_idx} : stop_range(locs, node) = {}
    THEN {}
    ELSE assignments(locs, vehs, tm, DOMAIN vehs, range(len(locs)) \ {depot_idx})

\* the indices of a vehicle's route, from its start index to its end index
index_path(manager, plan, vehicle_id) ==
    <<Start(manager, vehicle_id)>>
    \o [i \in 1 .. Len(plan[vehicle_id].path) |->
           NodeToIndex(manager, plan[vehicle_id].path[i])]
    \o <<End(manager, vehicle_id)>>

\* the successors and the time cumuls along the routes of the vehicles of vehicle_ids
RECURSIVE route_values(_, _, _)
route_values(manager, plan, vehicle_ids) ==
    IF vehicle_ids = {} THEN [next |-> <<>>, cumul |-> <<>>]
    ELSE LET v == Least(vehicle_ids)
             ip == index_path(manager, plan, v)
             rest == route_values(manager, plan, vehicle_ids \ {v})
         IN  [next |-> [k \in 1 .. (Len(ip) - 1) |-> <<ip[k], ip[k + 1]>>] \o rest.next,
              cumul |-> [k \in 1 .. Len(ip) |-> <<ip[k], plan[v].times[k]>>] \o rest.cumul]

\* the function that maps the first to the second component of the pairs
Lookup(pairs, default) ==
    [x \in DOMAIN default |->
        IF \E k \in DOMAIN pairs : pairs[k][1] = x
        THEN pairs[CHOOSE k \in DOMAIN pairs : pairs[k][1] = x][2]
        ELSE default[x]]

\* The assignment as the library holds it: the value of NextVar(index) (an
\* index that is its own successor is an unperformed node) and the value of
\* the time dimension's CumulVar(index).  The cumul of an unperformed node is
\* never read: the least of its range stands for it.
routing_solution(manager, locs, plan) ==
    LET values == route_values(manager, plan, DOMAIN plan)
    IN  [next |-> Lookup(values.next,
                         [index \in { i \in Indices(manager) : ~IsEnd(manager, i) } |-> index]),
         cumul |-> Lookup(values.cumul,
                          [index \in Indices(manager) |->
                              Least(stop_range(locs, IndexToNode(manager, index)))])]

(* -------------------------- _extract_solution -------------------------- *)

\* the indices the while loop passes, from index to the end index it stops at
RECURSIVE walk(_, _, _)
walk(manager, sol, index) ==
    IF IsEnd(manager, index) THEN <<index>>
    ELSE <<index>> \o walk(manager, sol, sol.next[index])

\* the loop skips no vehicle
vehicle_used_always(manager, sol, vehicle_id) == TRUE

\* not routing.IsEnd(solution.Value(routing.NextVar(routing.Start(vehicle_id))))
vehicle_used(manager, sol, vehicle_id) ==
    ~IsEnd(manager, sol.next[Start(manager, vehicle_id)])

\* the loop appends the node it moves to as well as the node it stands on
route_indices_twice(manager, indices) ==
    [k \in 1 .. (2 * (Len(indices) - 1)) |-> IndexToNode(manager, indices[(k \div 2) + 1])]

\* route_indices: the nodes of the indices passed, the final depot appended
route_indices(manager, indices) ==
    [k \in 1 .. Len(indices) |-> IndexToNode(manager, indices[k])]

\* route_segments: (node_index, to_node) for every step of the loop whose
\* next index is not an end index
route_segments(manager, indices) ==
    LET steps == SelectSeq([k \in 1 .. (Len(indices) - 1) |-> <<indices[k], indices[k + 1]>>],
                           LAMBDA step : ~IsEnd(manager, step[2]))
    IN  [k \in 1 .. Len(steps) |->
            <<IndexToNode(manager, steps[k][1]), IndexToNode(manager, steps[k][2])>>]

\* route_distance: dist_matrix[node_index][to_node] added up over the segments
route_distance(dm, segments) ==
    Sum([k \in 1 .. Len(segments) |-> dm[segments[k][1]][segments[k][2]]])

\* dist_matrix[node_index][to_node] raises IndexError on some segment
route_distance_raises(dm, segments) ==
    \E k \in DOMAIN segments :
        IF segments[k][1] \in DOMAIN dm
        THEN segments[k][2] \notin DOMAIN dm[segments[k][1]]
        ELSE TRUE

\* the time of a stop read at the index of the node before it
route_times_one_late(manager, sol, vehicle_id, nodes) ==
    [i \in 1 .. Len(nodes) |->
        IF i = 1 THEN sol.cumul[Start(manager, vehicle_id)]
        ELSE IF i = Len(nodes) THEN sol.cumul[End(manager, vehicle_id)]
        ELSE sol.cumul[NodeToIndex(manager, nodes[i - 1])]]

\* the branches of the first and of the last position read each other's cumul
route_times_ends_swapped(manager, sol, vehicle_id, nodes) ==
    [i \in 1 .. Len(nodes) |->
        IF i = 1 THEN sol.cumul[End(manager, vehicle_id)]
        ELSE IF i = Len(nodes) THEN sol.cumul[Start(manager, vehicle_id)]
        ELSE sol.cumul[NodeToIndex(manager, nodes[i])]]

\* route_times: the start cumul first, the end cumul last, the node's between
route_times_of(manager, sol, vehicle_id, nodes) ==
    [i \in 1 .. Len(nodes) |->
        IF i = 1 THEN sol.cumul[Start(manager, vehicle_id)]
        ELSE IF i = Len(nodes) THEN sol.cumul[End(manager, vehicle_id)]
        ELSE sol.cumul[NodeToIndex(manager, nodes[i])]]

\* sum([locations[n]['demand'] for n in route_indices if n != 0])
capacity_used(locs, nodes) ==
    LET stops == SelectSeq(nodes, LAMBDA n : n # 0)
    IN  Sum([k \in 1 .. Len(stops) |-> locs[stops[k]].demand])

\* the dictionary appended to routes for one vehicle; of the geometry only
\* the segment each polyline is drawn for is kept
route_entry(manager, sol, locs, vehs, dm, vehicle_id) ==
    LET indices == walk(manager, sol, Start(manager, vehicle_id))
        nodes == route_indices(manager, indices)
        segments == route_segments(manager, indices)
    IN  [vehicle_type |-> vehs[vehicle_id].name,
         route |-> ListOf(nodes),
         times |-> ListOf(route_times_of(manager, sol, vehicle_id, nodes)),
         distance |-> route_distance(dm, segments),
         duration |-> sol.cumul[indices[Len(indices)]] - sol.cumul[Start(manager, vehicle_id)],
         geometry |-> ListOf(segments),
         capacity_used |-> capacity_used(locs, nodes)]

\* round(total_dist / 1000, 2), in hundredths of a kilometer, ties to even
round_km(total_dist) ==
    LET q == total_dist \div 10
        r == total_dist % 10
    IN  IF r > 5 \/ (r = 5 /\ q % 2 = 1) THEN q + 1 ELSE q

\* the loop over the vehicles stops one vehicle early
used_vehicles_but_last(manager, sol, vehs) ==
    SelectSeq([k \in 1 .. (len(vehs) - 1) |-> k - 1],
              LAMBDA vehicle_id : vehicle_used(manager, sol, vehicle_id))

\* the vehicles the loop does not skip, in the order of the loop
used_vehicles(manager, sol, vehs) ==
    SelectSeq([k \in 1 .. len(vehs) |-> k - 1],
              LAMBDA vehicle_id : vehicle_used(manager, sol, vehicle_id))

\* _extract_solution raises
extract_raises(manager, sol, vehs, dm) ==
    \E v \in SeqRange(used_vehicles(manager, sol, vehs)) :
        route_distance_raises(
            dm, route_segments(manager, walk(manager, sol, Start(manager, v))))

\* the dictionary _extract_solution returns
extract_solution(manager, sol, locs, vehs, dm) ==
    LET used == used_vehicles(manager, sol, vehs)
        routes == [k \in 1 .. Len(used) |-> route_entry(manager, sol, locs, vehs, dm, used[k])]
    IN  [routes |-> ListOf(routes),
         total_distance_km |-> round_km(Sum([k \in 1 .. Len(routes) |-> routes[k].distance])),
         used_vehicles |-> Len(routes)]

(* ------------------------------- state --------------------------------- *)

VARIABLES
    pc,                 \* where the handler of the button and solve_vrp stand
    locations,          \* the location list, index 0 the depot
    selected_vehicles,  \* the vehicles ticked in the sidebar (vehicles_config)
    osrm,               \* what the table request of this run comes to
    time_matrix,        \* solve_vrp's matrices, empty before get_matrices
    dist_matrix,
    engine_invoked,     \* routing.SolveWithParameters has been called
    solution,           \* the assignment SolveWithParameters returned
    result,             \* what solve_vrp returned or raised
    ui                  \* the message of the handler and st.session_state.solution

vars == <<pc, locations, selected_vehicles, osrm, time_matrix, dist_matrix,
          engine_invoked, solution, result, ui>>

\* results of solve_vrp
Pending == [kind |-> "pending", value |-> EmptyList]

None == [kind |-> "None", value |-> EmptyList]

\* an exception, with the function that raised it
Raised(where) == [kind |-> "Exception", value |-> where]

Solution(value) == [kind |-> "Solution", value |-> value]

NoSolution == [next |-> EmptyList, cumul |-> EmptyList]

\* the full pipeline on every location list and fleet, with a service that
\* fails or answers one row short
PipelineInputs ==
    UNION { { <<locs, vehs, response>> :
                vehs \in VehicleLists,
                response \in {Response("timeout", "", Missing, Missing)}
                             \cup ShortResponses(len(locs)) } :
            locs \in LocationLists }

\* Lists of like stops.  The shift begins at midnight, or four minutes before
\* the horizon of the time dimension and ends after it, or after the horizon,
\* so that the model has no solution.
PlainLists ==
    {EmptyList} \cup
    UNION { { [i \in range(n + 1) |-> IF i = 0 THEN Depot(shift)
                                       ELSE Location(shift, 3, 1, 0, 1, 3)] :
                shift \in {0, 1436, 1441} } : n \in 0 .. MaxStops }

\* every outcome of the table request, on lists of like stops and one vehicle
ServiceInputs ==
    UNION { { <<locs, ListOf(<<[name |-> 0, capacity |-> 3]>>), response>> :
                response \in FailedRequests \cup OddResponses(len(locs)) } :
            locs \in PlainLists }

Init ==
    /\ \E input \in PipelineInputs \cup ServiceInputs :
          /\ locations = input[1]
          /\ selected_vehicles = input[2]
          /\ osrm = input[3]
    /\ pc = "idle"
    /\ time_matrix = EmptyList
    /\ dist_matrix = EmptyList
    /\ engine_invoked = FALSE
    /\ solution = NoSolution
    /\ result = Pending
    /\ ui = [message |-> "", session_solution |-> None]

(* ------------------------------ actions -------------------------------- *)

\* the handler of the button with no vehicle selected: solve_vrp is not called
calc_button_no_vehicles ==
    /\ pc = "idle"
    /\ len(selected_vehicles) = 0
    /\ ui' = [ui EXCEPT !.message = "error_no_vehicles"]
    /\ pc' = "done"
    /\ UNCHANGED <<locations, selected_vehicles, osrm, time_matrix, dist_matrix,
                   engine_invoked, solution, result>>

\* the handler calls solve_vrp(locations, selected_vehicles)
calc_button_solve ==
    /\ pc = "idle"
    /\ len(selected_vehicles) > 0
    /\ pc' = "get_matrices"
    /\ UNCHANGED <<locations, selected_vehicles, osrm, time_matrix, dist_matrix,
                   engine_invoked, solution, result, ui>>

\* time_matrix, dist_matrix = get_matrices(locations); an exception of
\* get_matrices would leave solve_vrp
solve_vrp_get_matrices ==
    /\ pc = "get_matrices"
    /\ IF get_matrices_raises(osrm)
       THEN /\ result' = Raised("get_matrices")
            /\ pc' = "returned"
            /\ UNCHANGED <<time_matrix, dist_matrix>>
       ELSE /\ time_matrix' = get_matrices(locations, osrm)[1]
            /\ dist_matrix' = get_matrices(locations, osrm)[2]
            /\ pc' = "matrices"
            /\ UNCHANGED result
    /\ UNCHANGED <<locations, selected_vehicles, osrm, engine_invoked, solution, ui>>

\* if not time_matrix: return None
solve_vrp_no_matrices ==
    /\ pc = "matrices"
    /\ len(time_matrix) = 0
    /\ result' = None
    /\ pc' = "returned"
    /\ UNCHANGED <<locations, selected_vehicles, osrm, time_matrix, dist_matrix,
                   engine_invoked, solution, ui>>

\* the model cannot be built: locations[depot_idx] raises on an empty list
solve_vrp_model_raises ==
    /\ pc = "matrices"
    /\ len(time_matrix) > 0
    /\ len(locations) = 0
    /\ result' = Raised("solve_vrp")
    /\ pc' = "returned"
    /\ UNCHANGED <<locations, selected_vehicles, osrm, time_matrix, dist_matrix,
                   engine_invoked, solution, ui>>

\* SolveWithParameters is called and time_callback raises in it
solve_vrp_callback_raises ==
    /\ pc = "matrices"
    /\ len(time_matrix) > 0
    /\ len(locations) > 0
    /\ time_callback_raises(locations, time_matrix)
    /\ engine_invoked' = TRUE
    /\ result' = Raised("time_callback")
    /\ pc' = "returned"
    /\ UNCHANGED <<locations, selected_vehicles, osrm, time_matrix, dist_matrix, solution, ui>>

\* SolveWithParameters finds no solution: return None
solve_vrp_no_solution ==
    /\ pc = "matrices"
    /\ len(time_matrix) > 0
    /\ len(locations) > 0
    /\ ~time_callback_raises(locations, time_matrix)
    /\ solutions(locations, selected_vehicles, time_matrix) = {}
    /\ engine_invoked' = TRUE
    /\ result' = None
    /\ pc' = "returned"
    /\ UNCHANGED <<locations, selected_vehicles, osrm, time_matrix, dist_matrix, solution, ui>>

\* SolveWithParameters returns one of the solutions of the model, and
\* solve_vrp returns _extract_solution(...) of it, which raises when
\* dist_matrix lacks an entry
solve_vrp_search ==
    /\ pc = "matrices"
    /\ len(time_matrix) > 0
    /\ len(locations) > 0
    /\ ~time_callback_raises(locations, time_matrix)
    /\ \E plan \in solutions(locations, selected_vehicles, time_matrix) :
          LET manager == RoutingIndexManager(len(locations), len(selected_vehicles), depot_idx)
              sol == routing_solution(manager, locations, plan)
          IN  /\ solution' = sol
              /\ result' = IF extract_raises(manager, sol, selected_vehicles, dist_matrix)
                           THEN Raised("_extract_solution")
                           ELSE Solution(extract_solution(manager, sol, locations,
                                                          selected_vehicles, dist_matrix))
    /\ engine_invoked' = TRUE
    /\ pc' = "returned"
    /\ UNCHANGED <<locations, selected_vehicles, osrm, time_matrix, dist_matrix, ui>>

\* the handler after solve_vrp: the solution is stored and reported, an
\* exception is caught and shown
calc_button_report ==
    /\ pc = "returned"
    /\ ui' = IF result.kind = "Exception"
             THEN [ui EXCEPT !.message = "error_exception"]
             ELSE [message |-> IF result.kind = "None" THEN "warning_no_solution"
                               ELSE "success",
                   session_solution |-> result]
    /\ pc' = "done"
    /\ UNCHANGED <<locations, selected_vehicles, osrm, time_matrix, dist_matrix,
                   engine_invoked, solution, result>>

Next ==
    \/ calc_button_no_vehicles
    \/ calc_button_solve
    \/ solve_vrp_get_matrices
    \/ solve_vrp_no_matrices
    \/ solve_vrp_model_raises
    \/ solve_vrp_callback_raises
    \/ solve_vrp_no_solution
    \/ solve_vrp_search
    \/ calc_button_report

Spec == Init /\ [][Next]_vars

(* ------------------------------ claims --------------------------------- *)

\* solve_vrp has returned a Solution
Returned == pc \in {"returned", "done"} /\ result.kind = "Solution"

\* solve_vrp has been called and has returned or raised
SolveEnded == pc \in {"returned", "done"} /\ result.kind # "pending"

\* get_matrices has raised
MatricesRaised == result.kind = "Exception" /\ result.value = "get_matrices"

\* get_matrices has returned its pair to solve_vrp
MatricesReturned ==
    /\ pc \in {"matrices", "returned", "done"}
    /\ len(selected_vehicles) > 0
    /\ ~MatricesRaised

\* the routes of the Solution, and the positions of a route
Routes == result.value.routes

Positions(route) == DOMAIN route.route

\* the positions of a route between its first and its last
Between(route) == { i \in Positions(route) : 0 < i /\ i < len(route.route) - 1 }

\* the non-depot stops of a route, as a sequence and as a set
StopsOf(route) == SelectSeq([k \in 1 .. len(route.route) |-> route.route[k - 1]],
                            LAMBDA n : n # depot_idx)

\* the vehicle that drives a route
VehicleOf(route) ==
    selected_vehicles[CHOOSE v \in DOMAIN selected_vehicles :
                          selected_vehicles[v].name = route.vehicle_type]

\* the non-depot locations
AllStops == range(len(locations)) \ {depot_idx}

\* C1: in every Solution solve_vrp returns, the capacity_used of every route is
\* the sum of the demand of the route's non-depot stops and is at most the
\* capacity of the vehicle that drives the route.
C1_CapacityRespected ==
    Returned =>
        \A k \in DOMAIN Routes :
            /\ Routes[k].capacity_used =
                   Sum([i \in 1 .. Len(StopsOf(Routes[k])) |->
                           locations[StopsOf(Routes[k])[i]].demand])
            /\ Routes[k].capacity_used <= VehicleOf(Routes[k]).capacity

\* a Solution with two vehicles of different capacity, one of them filled to
\* its capacity by two stops
C1_Witness ==
    /\ Returned
    /\ \E v, w \in DOMAIN selected_vehicles :
          selected_vehicles[v].capacity < selected_vehicles[w].capacity
    /\ \E k \in DOMAIN Routes :
          /\ Len(StopsOf(Routes[k])) = 2
          /\ Routes[k].capacity_used = VehicleOf(Routes[k]).capacity

\* C2: in every Solution, the time reported at every non-depot stop lies in
\* the stop's time window, and the times reported at the first and the last
\* position lie in the depot's time window.
C2_TimesInWindows ==
    Returned =>
        \A k \in DOMAIN Routes : \A i \in Positions(Routes[k]) :
            LET window == IF i \in Between(Routes[k])
                          THEN locations[Routes[k].route[i]].time_window
                          ELSE locations[depot_idx].time_window
            IN  /\ i \in DOMAIN Routes[k].times
                /\ window[1] <= Routes[k].times[i]
                /\ Routes[k].times[i] <= window[2]

\* a Solution with a route of two stops that leaves the depot before the
\* window of its first stop opens and reaches its second stop as the window closes
C2_Witness ==
    /\ Returned
    /\ \E k \in DOMAIN Routes :
          /\ len(Routes[k].route) = 4
          /\ Routes[k].times[0] < locations[Routes[k].route[1]].time_window[1]
          /\ Routes[k].times[2] = locations[Routes[k].route[2]].time_window[2]

\* the stops some route serves, and the stops the search left unperformed
Served == UNION { SeqRange(StopsOf(Routes[k])) : k \in DOMAIN Routes }

Unperformed ==
    { n \in AllStops :
        solution.next[NodeToIndex(RoutingIndexManager(len(locations), len(selected_vehicles),
                                                      depot_idx), n)]
            = NodeToIndex(RoutingIndexManager(len(locations), len(selected_vehicles),
                                              depot_idx), n) }

\* the number of non-depot entries of all the routes
ServedCount == Sum([k \in 1 .. len(Routes) |-> Len(StopsOf(Routes[k - 1]))])

C4_NoStopTwice ==
    Returned =>
        \A k, m \in DOMAIN Routes :
            \A i \in Positions(Routes[k]) : \A j \in Positions(Routes[m]) :
                (Routes[k].route[i] # depot_idx /\ (k # m \/ i # j))
                    => Routes[k].route[i] # Routes[m].route[j]

\* a Solution with two routes, each with a stop
C4_Witness ==
    /\ Returned
    /\ len(Routes) = 2
    /\ \A k \in DOMAIN Routes : Len(StopsOf(Routes[k])) = 1

\* the matrix has an entry for every pair of locations
Covers(matrix) ==
    \A i \in range(len(locations)) :
        IF i \in DOMAIN matrix THEN range(len(locations)) \subseteq DOMAIN matrix[i] ELSE FALSE

\* C5 as claimed: the distance of every route is the sum of dist_matrix over
\* the consecutive pairs of its stop sequence, the leg back to the depot included.
C5_DistanceOfWholeRoute ==
    (Returned /\ Covers(dist_matrix)) =>
        \A k \in DOMAIN Routes :
            Routes[k].distance =
                Sum([i \in 1 .. (len(Routes[k].route) - 1) |->
                        dist_matrix[Routes[k].route[i - 1]][Routes[k].route[i]]])

\* the greatest capacity among the selected vehicles
MaxCapacity ==
    CHOOSE c \in { selected_vehicles[v].capacity : v \in DOMAIN selected_vehicles } :
        \A v \in DOMAIN selected_vehicles : selected_vehicles[v].capacity <= c

\* an N x N matrix for the N locations
Square(matrix) ==
    /\ DOMAIN matrix = range(len(locations))
    /\ \A i \in DOMAIN matrix : DOMAIN matrix[i] = range(len(locations))

\* the input the Problem Model is to reject
Invalid ==
    \/ len(selected_vehicles) = 0
    \/ \E v \in DOMAIN selected_vehicles : selected_vehicles[v].capacity <= 0
    \/ \E n \in DOMAIN locations : locations[n].demand > MaxCapacity
    \/ (MatricesReturned /\ ~(Square(time_matrix) /\ Square(dist_matrix)))

\* C6 as claimed: when the vehicle list is empty, a capacity is <= 0, a demand
\* exceeds the greatest capacity or a matrix is not N x N, the solve ends
\* rejected (a ValidationError, or the handler's refusal to solve without
\* vehicles) and the search engine has not been invoked.
C6_InvalidRejected ==
    (pc = "done" /\ Invalid) =>
        /\ result.kind = "ValidationError" \/ ui.message = "error_no_vehicles"
        /\ ~engine_invoked

\* the stops no selected vehicle can carry
TooHeavy == { n \in AllStops : locations[n].demand > MaxCapacity }

\* C7 as claimed: when solve_vrp is called with a stop heavier than every
\* vehicle's capacity, it returns a Solution, and the stop is in no route.
C7_TooHeavyDropped ==
    (SolveEnded /\ TooHeavy # {}) =>
        /\ result.kind = "Solution"
        /\ Served \cap TooHeavy = {}

\* the response has the success code and both tables
ServiceAnswered ==
    /\ osrm.kind = "json"
    /\ osrm.code = "Ok"
    /\ osrm.durations.present
    /\ osrm.distances.present

\* C8: whatever the table request comes to, get_matrices does not raise, and
\* the pair it returns is the pair of the fallback for the same locations or
\* the pair derived from the response, never one matrix of each.
C8_ServiceOrFallback ==
    /\ ~MatricesRaised
    /\ MatricesReturned =>
           \/ <<time_matrix, dist_matrix>> = calculate_fallback_matrices(locations)
           \/ /\ ServiceAnswered
              /\ time_matrix = service_time_matrix(osrm.durations.value)
              /\ dist_matrix = service_dist_matrix(osrm.distances.value)

\* get_matrices has returned the fallback pair after it built the time matrix
\* from the response and then found a null among the distances
C8_Witness ==
    /\ MatricesReturned
    /\ ServiceAnswered
    /\ ~time_matrix_raises(osrm.durations.value)
    /\ dist_matrix_raises(osrm.distances.value)
    /\ service_time_matrix(osrm.durations.value) # calculate_fallback_time(locations)
    /\ time_matrix = calculate_fallback_time(locations)

\* C9 as claimed: in every pair get_matrices returns, the diagonal of the time
\* matrix and of the distance matrix is 0 and every other time is >= 1.
C9_DiagonalZero ==
    MatricesReturned =>
        /\ \A i \in DOMAIN time_matrix : \A j \in DOMAIN time_matrix[i] :
              IF i = j THEN time_matrix[i][j] = 0 ELSE time_matrix[i][j] >= 1
        /\ \A i \in DOMAIN dist_matrix : \A j \in DOMAIN dist_matrix[i] :
              i = j => dist_matrix[i][j] = 0

\* C10 as claimed: every pair get_matrices returns is two N x N matrices for
\* the N locations (a response of another shape leads to the fallback).
C10_ShapeChecked ==
    MatricesReturned => (Square(time_matrix) /\ Square(dist_matrix))

\* the index manager of the run
Manager == RoutingIndexManager(len(locations), len(selected_vehicles), depot_idx)

\* the vehicles the search sent from the depot straight back to the depot
StayedHome ==
    { v \in DOMAIN selected_vehicles :
        IsEnd(Manager, solution.next[Start(Manager, v)]) }

\* C11: in every Solution, every route begins and ends with the depot index 0
\* and has at least one stop between them, none of them the depot; a vehicle
\* the search sent from the depot straight back has no route, every other
\* vehicle has one, and used_vehicles is the number of routes.
C11_RoutesOfUsedVehicles ==
    Returned =>
        /\ \A k \in DOMAIN Routes :
              /\ len(Routes[k].route) >= 3
              /\ Routes[k].route[0] = 0
              /\ Routes[k].route[len(Routes[k].route) - 1] = 0
              /\ \A i \in Between(Routes[k]) : Routes[k].route[i] # 0
        /\ \A v \in DOMAIN selected_vehicles :
              (v \in StayedHome) <=>
                  ~(\E k \in DOMAIN Routes : Routes[k].vehicle_type = selected_vehicles[v].name)
        /\ result.value.used_vehicles = len(Routes)
        /\ len(Routes) = Cardinality(DOMAIN selected_vehicles \ StayedHome)

\* a Solution of a run with two vehicles, the first sent straight back to the
\* depot, the second with a route of two stops
C11_Witness ==
    /\ Returned
    /\ len(selected_vehicles) = 2
    /\ StayedHome = {0}
    /\ len(Routes) = 1
    /\ len(Routes[0].route) = 4
    /\ result.value.used_vehicles = 1

\* C12: in every Solution, the times of every route are as many as the
\* entries of its stop sequence, position for position, and never decrease
\* from one position to the next.
C12_TimesParallelAndMonotone ==
    Returned =>
        \A k \in DOMAIN Routes :
            /\ DOMAIN Routes[k].times = DOMAIN Routes[k].route
            /\ len(Routes[k].times) = len(Routes[k].route)
            /\ \A i \in Positions(Routes[k]) :
                  (i + 1) \in Positions(Routes[k])
                      => Routes[k].times[i] <= Routes[k].times[i + 1]

\* a Solution with a route of two stops and four times, the last later than the first
C12_Witness ==
    /\ Returned
    /\ \E k \in DOMAIN Routes :
          /\ len(Routes[k].route) = 4
          /\ len(Routes[k].times) = 4
          /\ Routes[k].times[0] < Routes[k].times[3]

\* C13 as claimed: when solve_vrp is called with an empty location list, both
\* matrices are empty whichever path built them, the search engine is not
\* invoked and solve_vrp returns None.
C13_EmptyListNoSolution ==
    (SolveEnded /\ len(locations) = 0) =>
        /\ len(time_matrix) = 0
        /\ len(dist_matrix) = 0
        /\ ~engine_invoked
        /\ result = None

\* the time a route waits between its positions i and i + 1: what the time
\* grows by, less the travel and the service time of the stop at position i
Waiting(route, i) ==
    route.times[i + 1] - route.times[i]
        - (time_matrix[route.route[i]][route.route[i + 1]]
           + locations[route.route[i]].service_time)

\* C14: in every Solution, between every two consecutive positions of every
\* route the time grows by the time-matrix entry of the two stops plus the
\* service time of the first of them plus a waiting time of 0 to 1440
\* minutes, and every reported time lies in 0 .. 1440.
C14_WaitingWithinSlack ==
    Returned =>
        \A k \in DOMAIN Routes :
            /\ \A i \in Positions(Routes[k]) :
                  (i + 1) \in Positions(Routes[k])
                      => (0 <= Waiting(Routes[k], i) /\ Waiting(Routes[k], i) <= 1440)
            /\ \A i \in DOMAIN Routes[k].times :
                  0 <= Routes[k].times[i] /\ Routes[k].times[i] <= 1440

\* a Solution with a route that leaves a stop with a service time as soon as
\* the stop is served and waits on another leg
C14_Witness ==
    /\ Returned
    /\ \E k \in DOMAIN Routes :
          /\ \E i \in Between(Routes[k]) :
                /\ locations[Routes[k].route[i]].service_time > 0
                /\ Waiting(Routes[k], i) = 0
          /\ \E i \in Positions(Routes[k]) :
                (i + 1) \in Positions(Routes[k]) /\ Waiting(Routes[k], i) > 0

====
